---- MODULE Spec2Model ----
(***************************************************************************)
(* Model of the DemoFlaskApp REST service (server.py) and of its HTTP      *)
(* client and checker (client.py).                                         *)
(*                                                                         *)
(* A text string is a sequence of one-character strings, so that parsing   *)
(* and formatting work on characters.  Python's None, where a string may   *)
(* be absent, is the sequence None below, which is no text string.         *)
(***************************************************************************)
EXTENDS Integers, Sequences, FiniteSets, TLC

VARIABLES
    users,      \* server.py: the module-level dictionary of users
    req,        \* the request the service handled last
    resp,       \* the response the service gave to req
    memo,       \* a remembered (request, response) pair of the service
    between,    \* whether another request was served since memo was taken
    caller,     \* client.py: who drives the client ("main", "checker", "direct")
    server_url, \* HttpClient.server_url: the peer the client talks to
    method,     \* the method of the running batch ("GET" or "POST")
    urls,       \* the urls list of the running batch
    params,     \* the params (GET) or data (POST) list of the running batch
    evaluate_request, \* the evaluate_request argument of the running call
    i,          \* the loop index of check_get_requests / check_post_requests
    pc,         \* the position of the client
    r,          \* the raw response of the request in flight
    result,     \* what get_request / post_request returned last
    exc,        \* the exception that left the client, "" when none
    sent,       \* number of requests handed to the transport
    completed,  \* number of requests whose call has returned or raised
    printed     \* the lines printed by _print_results, in order

serviceVars == <<users, req, resp>>
historyVars == <<memo, between>>
clientVars  == <<caller, server_url, method, urls, params, evaluate_request,
                 i, pc, r, result, exc, sent, completed, printed>>
vars == <<users, req, resp, memo, between, caller, server_url, method, urls,
          params, evaluate_request, i, pc, r, result, exc, sent, completed,
          printed>>

(***************************************************************************)
(* Bounds of the model.                                                    *)
(***************************************************************************)
\* longest generated text of a number or of an id
MaxLen == 2
\* longest generated text of cad1 and cad2
MaxCadLen == 1
\* longest list of urls, and of params, of a generated batch
MaxBatch == 2
\* integers -MaxN..MaxN are formatted into the two /calculate/ routes
MaxN == 12

(***************************************************************************)
(* Texts.                                                                  *)
(***************************************************************************)
None == <<"None">>

PyNone == [none |-> TRUE]

Digits == {"0", "1", "2", "3", "4", "5", "6", "7", "8", "9"}

Whitespace == {" "}

DigitVal(c) ==
    CASE c = "0" -> 0 [] c = "1" -> 1 [] c = "2" -> 2 [] c = "3" -> 3
      [] c = "4" -> 4 [] c = "5" -> 5 [] c = "6" -> 6 [] c = "7" -> 7
      [] c = "8" -> 8 [] c = "9" -> 9

DigitChar(d) ==
    CASE d = 0 -> "0" [] d = 1 -> "1" [] d = 2 -> "2" [] d = 3 -> "3"
      [] d = 4 -> "4" [] d = 5 -> "5" [] d = 6 -> "6" [] d = 7 -> "7"
      [] d = 8 -> "8" [] d = 9 -> "9"

StrsUpTo(A, n) == UNION {[1..k -> A] : k \in 0..n}

\* the characters the generated numbers and ids are made of
NumAlphabet == {"1", "6", "-", "a"}

\* the characters the generated cad1 and cad2 are made of
CadAlphabet == {"a", "b"}

\* texts of client.py's main, and texts Python's int() treats specially
Txt5 == <<"5">>
Txt100 == <<"1", "0", "0">>
TxtPrueba == <<"p", "r", "u", "e", "b", "a">>
TxtMeLlamo == <<"M", "e", " ", "l", "l", "a", "m", "o", " ",
                "M", "a", "r", "c", "o", "s", " ">>
TxtRivera == <<"R", "i", "v", "e", "r", "a", " ",
               "M", "a", "r", "t", "i", "n", "e", "z">>
TxtSpRivera == <<" ">> \o TxtRivera

SampleNums ==
    {Txt5, Txt100, TxtPrueba, <<"2">>, <<"3">>, <<"4">>, <<"0">>,
     <<"+", "5">>, <<" ", "5", " ">>, <<"1", "_", "0">>, <<"_", "1">>,
     <<"1", "_">>, <<"1", "_", "_", "0">>, <<"-", "0">>, <<"0", "0", "7">>,
     <<"-", " ", "1">>, <<"+">>, <<" ">>, <<"1", " ", "1">>, <<"1", ".", "0">>}

(***************************************************************************)
(* Python's int(num) on a text, and str(n) on an integer.                  *)
(***************************************************************************)
RECURSIVE LStrip(_)
LStrip(s) ==
    IF s # <<>> /\ Head(s) \in Whitespace THEN LStrip(Tail(s)) ELSE s

RECURSIVE RStrip(_)
RStrip(s) ==
    IF s # <<>> /\ s[Len(s)] \in Whitespace
    THEN RStrip(SubSeq(s, 1, Len(s) - 1)) ELSE s

Strip(s) == RStrip(LStrip(s))

Unsigned(s) ==
    IF s # <<>> /\ Head(s) \in {"+", "-"} THEN Tail(s) ELSE s

\* digits, with single underscores between digits
DigitsOk(b) ==
    /\ b # <<>>
    /\ b[1] \in Digits
    /\ b[Len(b)] \in Digits
    /\ \A k \in 1..Len(b) : b[k] \in Digits \cup {"_"}
    /\ \A k \in 1..(Len(b) - 1) : ~(b[k] = "_" /\ b[k + 1] = "_")

RECURSIVE DigitsValue(_, _)
DigitsValue(b, acc) ==
    IF b = <<>> THEN acc
    ELSE IF Head(b) = "_" THEN DigitsValue(Tail(b), acc)
    ELSE DigitsValue(Tail(b), 10 * acc + DigitVal(Head(b)))

IntParses(s) == DigitsOk(Unsigned(Strip(s)))

IntValue(s) ==
    LET t == Strip(s)
        v == DigitsValue(Unsigned(t), 0)
    IN  IF Head(t) = "-" THEN 0 - v ELSE v

RECURSIVE NatToStr(_)
NatToStr(n) ==
    IF n < 10 THEN <<DigitChar(n)>>
    ELSE Append(NatToStr(n \div 10), DigitChar(n % 10))

IntToStr(n) == IF n < 0 THEN <<"-">> \o NatToStr(0 - n) ELSE NatToStr(n)

\* str(n) of the integers the /calculate/ routes are compared on
FormattedInts == {IntToStr(n) : n \in (0 - MaxN)..MaxN}

NumInputs == StrsUpTo(NumAlphabet, MaxLen) \cup SampleNums \cup FormattedInts

CadInputs == StrsUpTo(CadAlphabet, MaxCadLen) \cup {TxtMeLlamo, TxtRivera, TxtSpRivera}

(***************************************************************************)
(* werkzeug's exceptions, and the service's error handler.                 *)
(***************************************************************************)
BadRequest(description) ==
    [code |-> 400, name |-> "Bad Request", description |-> description]

NotFound(description) ==
    [code |-> 404, name |-> "Not Found", description |-> description]

MethodNotAllowed ==
    [code |-> 405, name |-> "Method Not Allowed",
     description |-> "The method is not allowed for the requested URL."]

NoRoute == NotFound("The requested URL was not found on the server.")

\* str(e) of an HTTPException: "<code> <name>: <description>"
StrOfException(e) ==
    [code |-> e.code, name |-> e.name, description |-> e.description]

Returned(body, view) == [raised |-> FALSE, body |-> body, view |-> view]

Raised(e, view) == [raised |-> TRUE, e |-> e, view |-> view]

\* variant: the error is not turned into the JSON message object
http_error_handler_no_json(e, view) ==
    [status |-> e.code, json |-> FALSE,
     body |-> [html |-> StrOfException(e)], view |-> view]

http_error_handler(e, view) ==
    [status |-> e.code, json |-> TRUE,
     body |-> [message |-> StrOfException(e)], view |-> view]

\* a view's return value, sent with flask's default status
jsonify(body, view) ==
    [status |-> 200, json |-> TRUE, body |-> body, view |-> view]

(***************************************************************************)
(* The views of server.py.                                                 *)
(***************************************************************************)
InitialUsers ==
    (1 :> "Marcos") @@ (2 :> "Paula") @@ (3 :> "Alberto R")
        @@ (4 :> "Alberto F") @@ (5 :> "Isabel")

options ==
    Returned([api_methods |-> [GET |-> "return the information",
                               POST |-> "create a resource",
                               DELETE |-> "delete some information",
                               PUT |-> "update some information"],
              errors |-> [e400 |-> "Bad Request", e404 |-> "Not Found",
                          e405 |-> "Method Not Allowed",
                          e500 |-> "Internal Server Error"]],
             "options")

say_hello == Returned([greeting |-> "hola"], "say_hello")

\* variant: the two except branches exchanged
convert_to_int_swapped(num) ==
    IF num = None
    THEN [ok |-> FALSE, e |-> BadRequest("You have not enter a valid number")]
    ELSE IF ~IntParses(num)
    THEN [ok |-> FALSE, e |-> BadRequest("You have not entered a number")]
    ELSE [ok |-> TRUE, val |-> IntValue(num)]

convert_to_int(num) ==
    IF num = None
    THEN [ok |-> FALSE, e |-> BadRequest("You have not entered a number")]
    ELSE IF ~IntParses(num)
    THEN [ok |-> FALSE, e |-> BadRequest("You have not enter a valid number")]
    ELSE [ok |-> TRUE, val |-> IntValue(num)]

\* variant: num * 2 for num ** 2
calculate_square_number_double(num) ==
    LET n == convert_to_int(num)
    IN  IF ~n.ok THEN Raised(n.e, "calculate_square_number")
        ELSE Returned([result |-> n.val * 2], "calculate_square_number")

calculate_square_number(num) ==
    LET n == convert_to_int(num)
    IN  IF ~n.ok THEN Raised(n.e, "calculate_square_number")
        ELSE Returned([result |-> n.val * n.val], "calculate_square_number")

calculate_square_number_param(args) ==
    LET n == convert_to_int(args.num)
    IN  IF ~n.ok THEN Raised(n.e, "calculate_square_number_param")
        ELSE Returned([result |-> n.val * n.val],
                      "calculate_square_number_param")

\* variant: cad2 tested before cad1
concatenate_cad2_first(args) ==
    IF args.cad2 = None
    THEN Raised(BadRequest("You must provide cad2 parameter"), "concatenate")
    ELSE IF args.cad1 = None
    THEN Raised(BadRequest("You must provide cad1 parameter"), "concatenate")
    ELSE Returned([concatenation |-> args.cad1 \o args.cad2], "concatenate")

concatenate(args) ==
    IF args.cad1 = None
    THEN Raised(BadRequest("You must provide cad1 parameter"), "concatenate")
    ELSE IF args.cad2 = None
    THEN Raised(BadRequest("You must provide cad2 parameter"), "concatenate")
    ELSE Returned([concatenation |-> args.cad1 \o args.cad2], "concatenate")

\* variant: a failed conversion reported as a missing user
get_user_lookup_first(id, tbl) ==
    LET n == convert_to_int(id)
    IN  IF ~n.ok \/ n.val \notin DOMAIN tbl
        THEN Raised(NotFound("This user does not exist"), "get_user")
        ELSE Returned([user |-> tbl[n.val]], "get_user")

get_user(id, tbl) ==
    LET n == convert_to_int(id)
    IN  IF ~n.ok THEN Raised(n.e, "get_user")
        ELSE IF n.val \notin DOMAIN tbl
        THEN Raised(NotFound("This user does not exist"), "get_user")
        ELSE Returned([user |-> tbl[n.val]], "get_user")

(***************************************************************************)
(* Routing and dispatch (the @app.route decorators, flask's dispatch).     *)
(***************************************************************************)
Methods == {"GET", "POST"}

Bases == {"options", "sayhello", "calculate", "concatenate", "users", "nope"}

NoArgs == [num |-> None, cad1 |-> None, cad2 |-> None]

\* the url rule a path /<base>/<seg> matches; seg has no slash in it
MatchRule(base, seg) ==
    CASE base = "options" /\ seg = <<>> -> "options"
      [] base = "sayhello" /\ seg = <<>> -> "say_hello"
      [] base = "calculate" /\ seg # <<>> -> "calculate_square_number"
      [] base = "calculate" /\ seg = <<>> -> "calculate_square_number_param"
      [] base = "concatenate" /\ seg = <<>> -> "concatenate"
      [] base = "users" /\ seg # <<>> -> "get_user"
      [] OTHER -> "none"

\* variant: /users/<id> also routed for POST
RuleMethodsUsersPost(rule) ==
    IF rule = "get_user" THEN {"GET", "POST"} ELSE {"GET"}

RuleMethods(rule) == {"GET"}

View(rule, rq, tbl) ==
    CASE rule = "options" -> options
      [] rule = "say_hello" -> say_hello
      [] rule = "calculate_square_number" -> calculate_square_number(rq.seg)
      [] rule = "calculate_square_number_param" ->
             calculate_square_number_param(rq.args)
      [] rule = "concatenate" -> concatenate(rq.args)
      [] rule = "get_user" -> get_user(rq.seg, tbl)

dispatch_request(rq, tbl) ==
    LET rule == MatchRule(rq.base, rq.seg)
    IN  IF rule = "none" THEN http_error_handler(NoRoute, "none")
        ELSE IF rq.method \notin RuleMethods(rule)
        THEN http_error_handler(MethodNotAllowed, "none")
        ELSE LET rv == View(rule, rq, tbl)
             IN  IF rv.raised THEN http_error_handler(rv.e, rv.view)
                 ELSE jsonify(rv.body, rv.view)

Request(m, base, seg, args) ==
    [method |-> m, base |-> base, seg |-> seg, args |-> args]

NoRequest == Request("-", "-", <<>>, NoArgs)

NoResponse == [status |-> 0, json |-> FALSE, body |-> PyNone, view |-> "none"]

\* variant: get_user removes the user it returns
users_after_pop(rq, tbl) ==
    LET rule == MatchRule(rq.base, rq.seg)
        n == convert_to_int(rq.seg)
    IN  IF rule = "get_user" /\ rq.method = "GET" /\ n.ok
        THEN [k \in DOMAIN tbl \ {n.val} |-> tbl[k]]
        ELSE tbl

\* the users dictionary after a request: no view assigns to it
users_after(rq, tbl) == tbl

\* the service handles one request
Serve(rq) ==
    /\ req' = rq
    /\ resp' = dispatch_request(rq, users)
    /\ users' = users_after(rq, users)

(***************************************************************************)
(* The service on its own: one action per endpoint.                        *)
(***************************************************************************)
ClientIdle ==
    /\ caller = "none" /\ server_url = "none" /\ method = "-"
    /\ urls = <<>> /\ params = <<>> /\ evaluate_request = TRUE
    /\ i = 0 /\ pc = "idle" /\ r = NoResponse
    /\ result = [content |-> PyNone, error |-> PyNone]
    /\ exc = "" /\ sent = 0 /\ completed = 0 /\ printed = <<>>

ServiceInit ==
    /\ users = InitialUsers
    /\ req = NoRequest
    /\ resp = NoResponse
    /\ memo = [taken |-> FALSE, req |-> NoRequest, resp |-> NoResponse]
    /\ between = FALSE

Init ==
    /\ ServiceInit
    /\ ClientIdle

Options ==
    /\ Serve(Request("GET", "options", <<>>, NoArgs))
    /\ UNCHANGED <<historyVars, clientVars>>

SayHello ==
    /\ Serve(Request("GET", "sayhello", <<>>, NoArgs))
    /\ UNCHANGED <<historyVars, clientVars>>

CalculatePath ==
    /\ \E num \in NumInputs \ {<<>>} :
           Serve(Request("GET", "calculate", num, NoArgs))
    /\ UNCHANGED <<historyVars, clientVars>>

CalculateParam ==
    /\ \E num \in NumInputs \cup {None} :
           Serve(Request("GET", "calculate", <<>>, [NoArgs EXCEPT !.num = num]))
    /\ UNCHANGED <<historyVars, clientVars>>

Concatenate ==
    /\ \E cad1 \in CadInputs \cup {None}, cad2 \in CadInputs \cup {None} :
           Serve(Request("GET", "concatenate", <<>>,
                         [NoArgs EXCEPT !.cad1 = cad1, !.cad2 = cad2]))
    /\ UNCHANGED <<historyVars, clientVars>>

GetUser ==
    /\ \E id \in NumInputs \ {<<>>} :
           Serve(Request("GET", "users", id, NoArgs))
    /\ UNCHANGED <<historyVars, clientVars>>

\* a POST to a url some rule matches
Post ==
    /\ \E base \in Bases, seg \in NumInputs, num \in {None, Txt5} :
           /\ MatchRule(base, seg) # "none"
           /\ Serve(Request("POST", base, seg, [NoArgs EXCEPT !.num = num]))
    /\ UNCHANGED <<historyVars, clientVars>>

\* a request to a url no rule matches
Unrouted ==
    /\ \E m \in Methods, base \in Bases, seg \in NumInputs :
           /\ MatchRule(base, seg) = "none"
           /\ Serve(Request(m, base, seg, NoArgs))
    /\ UNCHANGED <<historyVars, clientVars>>

Next ==
    \/ Options
    \/ SayHello
    \/ CalculatePath
    \/ CalculateParam
    \/ Concatenate
    \/ GetUser
    \/ Post
    \/ Unrouted

Spec == Init /\ [][Next]_vars

(***************************************************************************)
(* Properties of the service on its own (specification Spec).              *)
(***************************************************************************)
IsGet(base) == req.method = "GET" /\ req.base = base

Description == resp.body.message.description

\* the text handed to convert_to_int by the view that served req
ConvertInput == IF req.seg = <<>> THEN req.args.num ELSE req.seg

ConvertViews ==
    {"calculate_square_number", "calculate_square_number_param", "get_user"}

\* the same number asked of the other /calculate/ route
Twin(rq) ==
    IF rq.seg = <<>>
    THEN Request("GET", "calculate", rq.args.num, NoArgs)
    ELSE Request("GET", "calculate", <<>>, [NoArgs EXCEPT !.num = rq.seg])

\* C1: for every integer n, GET /calculate/{n} and GET /calculate/?num={n}
\* both answer 200 with the body {result: n*n}, and the two routes give the
\* same status and body for it (zero and negative n included).
C1_SquareOnBothRoutes ==
    \A n \in (0 - MaxN)..MaxN :
        (IsGet("calculate") /\ ConvertInput = IntToStr(n))
            => /\ resp.status = 200
               /\ resp.body = [result |-> n * n]
               /\ dispatch_request(Twin(req), users).status = resp.status
               /\ dispatch_request(Twin(req), users).body = resp.body

C1_Witness ==
    /\ IsGet("calculate")
    /\ req.seg = <<>>
    /\ req.args.num = <<"-", "1", "2">>
    /\ resp.body = [result |-> 144]

\* C2 as stated: a present text that does not parse as an integer is answered
\* 400 with the message "invalid number", an absent one 400 with the message
\* "number not provided".
C2_MessagesAsStated ==
    (resp.view \in ConvertViews /\ req.method = "GET")
        => /\ (ConvertInput # None /\ ~IntParses(ConvertInput))
                 => (resp.status = 400 /\ Description = "invalid number")
           /\ ConvertInput = None
                 => (resp.status = 400 /\ Description = "number not provided")

\* C2, amended: convert_to_int gives no value for a bad input: a present text
\* that does not parse as an integer is answered 400 Bad Request with the
\* description "You have not enter a valid number", an absent one 400 Bad
\* Request with the description "You have not entered a number"; the two
\* texts differ, and a 400 is given to bad inputs only.
C2_ConvertToIntRejects ==
    (resp.view \in ConvertViews /\ req.method = "GET")
        => /\ (ConvertInput # None /\ ~IntParses(ConvertInput))
                 => /\ resp.status = 400
                    /\ resp.body.message.name = "Bad Request"
                    /\ Description = "You have not enter a valid number"
           /\ ConvertInput = None
                 => /\ resp.status = 400
                    /\ resp.body.message.name = "Bad Request"
                    /\ Description = "You have not entered a number"
           /\ resp.status = 400
                 => (ConvertInput = None \/ ~IntParses(ConvertInput))
           /\ "You have not enter a valid number"
                 # "You have not entered a number"

C2_Witness ==
    /\ resp.view = "calculate_square_number_param"
    /\ req.args.num = None
    /\ resp.status = 400
    /\ Description = "You have not entered a number"

\* C3: GET /concatenate/ answers {concatenation: cad1+cad2} exactly when cad1
\* and cad2 are both present (the empty text is present); otherwise it answers
\* 400, naming cad1 whenever cad1 is absent and cad2 only when cad1 is present
\* and cad2 is absent.
C3_ConcatenatePresence ==
    (IsGet("concatenate") /\ req.seg = <<>>)
        => /\ (resp.status = 200)
                 <=> (req.args.cad1 # None /\ req.args.cad2 # None)
           /\ resp.status = 200
                 => resp.body = [concatenation |->
                                     req.args.cad1 \o req.args.cad2]
           /\ resp.status # 200 => resp.status = 400
           /\ req.args.cad1 = None
                 => Description = "You must provide cad1 parameter"
           /\ (req.args.cad1 # None /\ req.args.cad2 = None)
                 => Description = "You must provide cad2 parameter"

C3_Witness ==
    /\ IsGet("concatenate")
    /\ req.args.cad1 = None
    /\ req.args.cad2 = <<>>
    /\ resp.status = 400

\* C4: GET /users/{id} validates before it looks up: an id that does not
\* parse as an integer is answered 400, never 404; an id that parses is
\* answered {user: name} exactly when it is one of the keys 1..5, and 404
\* otherwise; so a 404 is given to integer-parseable ids only.
C4_ValidateThenLookup ==
    (IsGet("users") /\ req.seg # <<>>)
        => /\ ~IntParses(req.seg) => resp.status = 400
           /\ (IntParses(req.seg) /\ IntValue(req.seg) \in 1..5)
                 => /\ resp.status = 200
                    /\ resp.body = [user |-> InitialUsers[IntValue(req.seg)]]
           /\ (IntParses(req.seg) /\ IntValue(req.seg) \notin 1..5)
                 => resp.status = 404
           /\ resp.status = 404 => IntParses(req.seg)

C4_Witness ==
    /\ IsGet("users")
    /\ req.seg = TxtPrueba
    /\ resp.status = 400
    /\ resp.view = "get_user"

\* C5: every error response of the service is a JSON object with the single
\* key message and carries the status code of the error that caused it: 404
\* for a url no rule matches, 405 for a method the matched rule does not
\* allow, 400 or 404 for an error raised by a view.
C5_UniformErrors ==
    (req # NoRequest /\ resp.status # 200)
        => /\ resp.json
           /\ DOMAIN resp.body = {"message"}
           /\ resp.body.message.code = resp.status
           /\ MatchRule(req.base, req.seg) = "none"
                 => (resp.status = 404 /\ resp.body.message.name = "Not Found")
           /\ (MatchRule(req.base, req.seg) # "none" /\ req.method # "GET")
                 => resp.status = 405
           /\ resp.view # "none" => resp.status \in {400, 404}

C5_Witness ==
    /\ req.method = "POST"
    /\ req.base = "users"
    /\ resp.status = 405
    /\ DOMAIN resp.body = {"message"}

(***************************************************************************)
(* client.py: the lists of main, HttpClient and APIChecker.                *)
(***************************************************************************)
\* the url /<base>/<seg>
Url(base, seg) == [base |-> base, seg |-> seg]

Params(num, cad1, cad2) == [num |-> num, cad1 |-> cad1, cad2 |-> cad2]

get_urls ==
    <<Url("options", <<>>), Url("sayhello", <<>>), Url("calculate", Txt5),
      Url("calculate", TxtPrueba), Url("calculate", <<>>),
      Url("calculate", <<>>), Url("concatenate", <<>>),
      Url("concatenate", <<>>), Url("concatenate", <<>>),
      Url("concatenate", <<>>), Url("users", <<"1">>), Url("users", Txt100),
      Url("users", TxtPrueba)>>

main_params ==
    <<PyNone, PyNone, PyNone, PyNone, Params(Txt5, None, None),
      Params(TxtPrueba, None, None), Params(None, TxtMeLlamo, TxtSpRivera),
      Params(None, <<>>, TxtRivera), Params(None, TxtMeLlamo, <<>>),
      Params(None, <<>>, <<>>), PyNone, PyNone, PyNone>>

post_urls ==
    <<Url("options", <<>>), Url("sayhello", <<>>), Url("calculate", Txt5),
      Url("calculate", <<>>), Url("concatenate", <<>>),
      Url("users", <<"1">>)>>

main_data == <<PyNone, PyNone, PyNone, PyNone, PyNone, PyNone>>

\* the request requests.get(url, params=param) / requests.post(url, data=d)
\* puts on the wire: params go to the query string, data to the body
WireRequest(m, url, param) ==
    Request(m, url.base, url.seg,
            IF m = "GET" /\ param # PyNone THEN param ELSE NoArgs)

\* responses of a peer that is not this repository's service
ForeignResponses ==
    {[status |-> st, json |-> b.json, body |-> b.body, view |-> "foreign"] :
        st \in {200, 304, 404},
        b \in {[json |-> TRUE, body |-> [data |-> "x"]],
               [json |-> TRUE, body |-> PyNone],
               [json |-> FALSE, body |-> [text |-> "<html>"]]}}

\* Response.raise_for_status raises HTTPError for 4xx and 5xx
RaisesForStatus(rr) == 400 <= rr.status /\ rr.status < 600

\* variant: HTTPError not caught
_evaluate_request_no_except(rr) ==
    IF RaisesForStatus(rr) THEN [raised |-> TRUE, exc |-> "HTTPError"]
    ELSE IF ~rr.json THEN [raised |-> TRUE, exc |-> "JSONDecodeError"]
    ELSE [raised |-> FALSE,
          result |-> [content |-> rr.body, error |-> PyNone]]

\* variant: content read before raise_for_status
_evaluate_request_both(rr) ==
    IF ~rr.json THEN [raised |-> TRUE, exc |-> "JSONDecodeError"]
    ELSE IF RaisesForStatus(rr)
    THEN [raised |-> FALSE,
          result |-> [content |-> rr.body, error |-> rr.body]]
    ELSE [raised |-> FALSE,
          result |-> [content |-> rr.body, error |-> PyNone]]

_evaluate_request(rr) ==
    IF RaisesForStatus(rr)
    THEN \* except HTTPError: error = err.response.json()
         IF ~rr.json THEN [raised |-> TRUE, exc |-> "JSONDecodeError"]
         ELSE [raised |-> FALSE,
               result |-> [content |-> PyNone, error |-> rr.body]]
    ELSE \* content = req.json()
         IF ~rr.json THEN [raised |-> TRUE, exc |-> "JSONDecodeError"]
         ELSE [raised |-> FALSE,
               result |-> [content |-> rr.body, error |-> PyNone]]

\* the line _print_results prints
_print_results(m, url, res, param, d) ==
    IF res.error = PyNone
    THEN [method |-> m, url |-> url, params |-> param, data |-> d,
          label |-> "Result", value |-> res.content]
    ELSE [method |-> m, url |-> url, params |-> param, data |-> d,
          label |-> "Error", value |-> res.error]

\* variant: the index is not used
pair_at_first(us, ps, k) == [url |-> us[1], param |-> ps[1]]

\* url = urls[i]; param = params[i], for the 0-based index k
pair_at(us, ps, k) == [url |-> us[k + 1], param |-> ps[k + 1]]

ListsUpTo(S, n) == UNION {[1..k -> S] : k \in 0..n}

CheckerUrls == {Url("calculate", <<>>), Url("users", <<"1">>)}

CheckerParams == {PyNone, Params(Txt5, None, None)}

Peers == {"service", "other"}

ClientFresh ==
    /\ i = 0 /\ r = NoResponse
    /\ result = [content |-> PyNone, error |-> PyNone]
    /\ exc = "" /\ sent = 0 /\ completed = 0 /\ printed = <<>>

\* main(): the GET batch against http://127.0.0.1:5000
InitMain ==
    /\ caller = "main" /\ server_url = "service" /\ method = "GET"
    /\ urls = get_urls /\ params = main_params
    /\ evaluate_request = TRUE /\ pc = "loop"

\* a call of check_get_requests or check_post_requests
InitChecker ==
    /\ caller = "checker" /\ server_url \in Peers /\ method \in Methods
    /\ urls \in ListsUpTo(CheckerUrls, MaxBatch)
    /\ params \in ListsUpTo(CheckerParams, MaxBatch)
    /\ evaluate_request = TRUE /\ pc = "loop"

\* a call of get_request or post_request
InitDirect ==
    /\ caller = "direct" /\ server_url \in Peers /\ method \in Methods
    /\ urls \in [1..1 -> CheckerUrls]
    /\ params \in [1..1 -> CheckerParams]
    /\ evaluate_request \in BOOLEAN /\ pc = "call"

InitClient ==
    /\ ServiceInit
    /\ ClientFresh
    /\ (InitMain \/ InitChecker \/ InitDirect)

\* variant: the loop runs over the shorter of the two lists
LoopNextShorter ==
    /\ pc = "loop" /\ i < Len(urls)
    /\ IF i + 1 > Len(params)
       THEN pc' = "done" /\ exc' = exc
       ELSE pc' = "call" /\ exc' = exc
    /\ UNCHANGED <<serviceVars, historyVars, caller, server_url, method, urls,
                   params, evaluate_request, i, r, result, sent, completed,
                   printed>>

\* for i in range(0, len(urls)): url = urls[i]; param = params[i]
LoopNext ==
    /\ pc = "loop" /\ i < Len(urls)
    /\ IF i + 1 > Len(params)
       THEN pc' = "raised" /\ exc' = "IndexError"
       ELSE pc' = "call" /\ exc' = exc
    /\ UNCHANGED <<serviceVars, historyVars, caller, server_url, method, urls,
                   params, evaluate_request, i, r, result, sent, completed,
                   printed>>

\* the loop of a batch ends
LoopEnd ==
    /\ pc = "loop" /\ i = Len(urls)
    /\ ~(caller = "main" /\ method = "GET")
    /\ pc' = "done"
    /\ UNCHANGED <<serviceVars, historyVars, caller, server_url, method, urls,
                   params, evaluate_request, i, r, result, exc, sent,
                   completed, printed>>

\* main(): check_get_requests has returned, check_post_requests starts
MainPostBatch ==
    /\ pc = "loop" /\ i = Len(urls)
    /\ caller = "main" /\ method = "GET"
    /\ method' = "POST" /\ urls' = post_urls /\ params' = main_data
    /\ i' = 0
    /\ UNCHANGED <<serviceVars, historyVars, caller, server_url,
                   evaluate_request, pc, r, result, exc, sent, completed,
                   printed>>

\* requests.get / requests.post hands the request to the transport
SendRequest ==
    /\ pc = "call"
    /\ sent' = sent + 1
    /\ r' = NoResponse
    /\ pc' = "inflight"
    /\ UNCHANGED <<serviceVars, historyVars, caller, server_url, method, urls,
                   params, evaluate_request, i, result, exc, completed,
                   printed>>

\* the service of this repository answers the request
ServiceResponds ==
    /\ pc = "inflight" /\ server_url = "service"
    /\ LET p == pair_at(urls, params, i)
       IN  Serve(WireRequest(method, p.url, p.param))
    /\ r' = resp'
    /\ pc' = "responded"
    /\ UNCHANGED <<historyVars, caller, server_url, method, urls, params,
                   evaluate_request, i, result, exc, sent, completed, printed>>

\* another peer answers the request
ForeignResponds ==
    /\ pc = "inflight" /\ server_url = "other"
    /\ r' \in ForeignResponses
    /\ pc' = "responded"
    /\ UNCHANGED <<serviceVars, historyVars, caller, server_url, method, urls,
                   params, evaluate_request, i, result, exc, sent, completed,
                   printed>>

\* requests.get / requests.post raises: no connection, no response
TransportFails ==
    /\ pc = "inflight"
    /\ exc' = "ConnectionError"
    /\ pc' = "raised"
    /\ completed' = completed + 1
    /\ UNCHANGED <<serviceVars, historyVars, caller, server_url, method, urls,
                   params, evaluate_request, i, r, result, sent, printed>>

\* get_request / post_request returns, through _evaluate_request or not
Return ==
    /\ pc = "responded"
    /\ completed' = completed + 1
    /\ IF evaluate_request
       THEN LET ev == _evaluate_request(r)
            IN  IF ev.raised
                THEN pc' = "raised" /\ exc' = ev.exc /\ result' = result
                ELSE /\ result' = ev.result
                     /\ exc' = exc
                     /\ pc' = IF caller = "direct" THEN "returned" ELSE "print"
       ELSE result' = r /\ exc' = exc /\ pc' = "returned"
    /\ UNCHANGED <<serviceVars, historyVars, caller, server_url, method, urls,
                   params, evaluate_request, i, r, sent, printed>>

\* self._print_results(...), and the loop goes to the next index
PrintLine ==
    /\ pc = "print"
    /\ LET p == pair_at(urls, params, i)
       IN  printed' = Append(printed,
               IF method = "GET"
               THEN _print_results("GET", p.url, result, p.param, PyNone)
               ELSE _print_results("POST", p.url, result, PyNone, p.param))
    /\ i' = i + 1
    /\ pc' = "loop"
    /\ UNCHANGED <<serviceVars, historyVars, caller, server_url, method, urls,
                   params, evaluate_request, r, result, exc, sent, completed>>

NextClient ==
    \/ LoopNext
    \/ LoopEnd
    \/ MainPostBatch
    \/ SendRequest
    \/ ServiceResponds
    \/ ForeignResponds
    \/ TransportFails
    \/ Return
    \/ PrintLine

SpecClient == InitClient /\ [][NextClient]_vars

(***************************************************************************)
(* The service asked the same request again (specification SpecRepeat).    *)
(***************************************************************************)
\* the requests main's two batches put on the wire
ProbeRequests ==
    {WireRequest("GET", get_urls[k], main_params[k]) : k \in DOMAIN get_urls}
        \cup
    {WireRequest("POST", post_urls[k], main_data[k]) : k \in DOMAIN post_urls}

\* a request served before any is remembered
ServeEarlier ==
    /\ ~memo.taken
    /\ \E rq \in ProbeRequests : Serve(rq)
    /\ UNCHANGED <<historyVars, clientVars>>

\* a request is served and remembered with its response
Remember ==
    /\ ~memo.taken
    /\ \E rq \in ProbeRequests :
           /\ Serve(rq)
           /\ memo' = [taken |-> TRUE, req |-> rq, resp |-> resp']
    /\ between' = FALSE
    /\ UNCHANGED clientVars

\* a request served after one was remembered
ServeLater ==
    /\ memo.taken
    /\ \E rq \in ProbeRequests :
           /\ Serve(rq)
           /\ between' = (between \/ rq # memo.req)
    /\ UNCHANGED <<memo, clientVars>>

NextRepeat ==
    \/ ServeEarlier
    \/ Remember
    \/ ServeLater

SpecRepeat == Init /\ [][NextRepeat]_vars

(***************************************************************************)
(* Properties of the client (specification SpecClient) and of the          *)
(* repeated request (specification SpecRepeat).                            *)
(***************************************************************************)
\* get_request / post_request has returned a value to its caller
HasReturned == pc \in {"print", "returned"}

\* an exception left get_request / post_request
CallRaised == pc = "raised" /\ exc # "IndexError"

IsResultRecord(v) == DOMAIN v = {"content", "error"}

C7_ExactlyOneAsStated ==
    (evaluate_request /\ HasReturned)
        => /\ (result.content = PyNone) # (result.error = PyNone)
           /\ (r.status \in 200..299) <=> (result.content # PyNone)

\* C7, amended: a result record of an evaluated call never has both content
\* and error populated: below status 400 content is the JSON body and error
\* is None, for 4xx and 5xx error is the JSON body and content is None; so
\* exactly one of the two is populated unless the JSON body is null, and then
\* both are None.  The service of this repository sends no null body.
C7_AtMostOnePopulated ==
    (evaluate_request /\ HasReturned)
        => /\ ~(result.content # PyNone /\ result.error # PyNone)
           /\ ~RaisesForStatus(r)
                 => (result.content = r.body /\ result.error = PyNone)
           /\ RaisesForStatus(r)
                 => (result.error = r.body /\ result.content = PyNone)
           /\ r.body # PyNone
                 => (result.content = PyNone) # (result.error = PyNone)
           /\ server_url = "service" => r.body # PyNone

C7_Witness ==
    /\ evaluate_request
    /\ HasReturned
    /\ r.status = 200
    /\ r.body = PyNone
    /\ result = [content |-> PyNone, error |-> PyNone]

\* lines printed before the running batch began
BatchStart == IF caller = "main" /\ method = "POST" THEN Len(get_urls) ELSE 0

IsBatch == caller \in {"main", "checker"} /\ Len(urls) = Len(params)

BatchEnded == pc \in {"done", "raised"}

\* the k-th line of the running batch is the line of its k-th pair
LineOfPair(k) ==
    LET line == printed[BatchStart + k]
    IN  /\ line.method = method
        /\ line.url = urls[k]
        /\ (IF method = "GET" THEN line.params ELSE line.data) = params[k]

\* C8 as stated: a batch of N pairs always ends with exactly N requests
\* issued and exactly N records printed.
C8_AlwaysNRecords ==
    (IsBatch /\ BatchEnded)
        => /\ sent = BatchStart + Len(urls)
           /\ Len(printed) = BatchStart + Len(urls)

\* C8, amended: for a batch of N pairs the requests are issued one at a time
\* in list order, request i+1 only after request i has returned and its
\* record is printed, the i-th record being that of the i-th pair; the batch
\* ends with exactly N requests and N records when no request raises, and
\* when request k raises it ends there, with k requests issued and the k-1
\* records of the requests before it printed.
C8_SequentialInOrder ==
    IsBatch
        => /\ sent - completed \in {0, 1}
           /\ Len(printed) = BatchStart + i
           /\ i <= Len(urls)
           /\ \A k \in 1..i : LineOfPair(k)
           /\ pc \in {"loop", "call", "done"} => sent = BatchStart + i
           /\ pc \in {"inflight", "responded", "print", "raised"}
                 => sent = BatchStart + i + 1
           /\ pc \in {"inflight", "responded"} => (sent - completed = 1)
           /\ pc \notin {"inflight", "responded"} => (sent = completed)
           /\ pc = "done" => i = Len(urls)
           /\ pc = "raised" => (CallRaised /\ i < Len(urls))

C8_Witness ==
    /\ caller = "checker"
    /\ Len(urls) = 2 /\ Len(params) = 2
    /\ pc = "done"
    /\ Len(printed) = 2
    /\ sent = 2
    /\ printed[1].url # printed[2].url

\* C9: the service has no hidden state: after any sequence of requests the
\* users table holds its five initial entries, and a request repeated with
\* identical inputs gets the status and body of the first time, whatever was
\* served in between.
C9_NoHiddenState ==
    /\ users = InitialUsers
    /\ (memo.taken /\ req = memo.req)
          => (resp.status = memo.resp.status /\ resp.body = memo.resp.body)

C9_Witness ==
    /\ memo.taken
    /\ between
    /\ req = memo.req
    /\ req.method = "GET"
    /\ req.base = "users"
    /\ resp.status = 200

\* C10: every endpoint accepts GET only: a POST to a url of one of the six
\* rules is answered 405 without any view running, so every record the
\* client prints for such a POST to the service is an error record, and
\* main's POST batch prints one for each of its six urls.
C10_PostRejected ==
    (server_url = "service" /\ method = "POST")
        => /\ (pc \in {"responded", "print", "returned"}
                  /\ MatchRule(req.base, req.seg) # "none")
                 => (r.status = 405 /\ r.view = "none")
           /\ (pc = "print" /\ MatchRule(req.base, req.seg) # "none")
                 => (result.error # PyNone /\ result.content = PyNone)
           /\ \A k \in (BatchStart + 1)..Len(printed) :
                 MatchRule(printed[k].url.base, printed[k].url.seg) # "none"
                    => /\ printed[k].label = "Error"
                       /\ printed[k].value.message.code = 405
           /\ (caller = "main" /\ pc = "done")
                 => Len(printed) = BatchStart + Len(post_urls)

C10_Witness ==
    /\ caller = "main"
    /\ method = "POST"
    /\ pc = "done"
    /\ Len(printed) = Len(get_urls) + Len(post_urls)
    /\ \A k \in 1..Len(post_urls) :
          /\ printed[Len(get_urls) + k].url = post_urls[k]
          /\ printed[Len(get_urls) + k].label = "Error"

\* a call of the checker with lists of any two lengths
IsCheckerCall == caller = "checker"

\* C11 as stated: when params has K < len(urls) entries the call always ends
\* with the index error after exactly K requests and K printed records; when
\* params is not shorter than urls it always ends with exactly len(urls)
\* requests and records.
C11_LengthsAsStated ==
    (IsCheckerCall /\ BatchEnded)
        => /\ Len(params) < Len(urls)
                 => /\ exc = "IndexError"
                    /\ sent = Len(params)
                    /\ Len(printed) = Len(params)
           /\ Len(params) > Len(urls)
                 => /\ pc = "done"
                    /\ sent = Len(urls)
                    /\ Len(printed) = Len(urls)

\* C11, amended: the checker does not compare the lengths of its two lists
\* and iterates over urls only.  When params (or data) has K < len(urls)
\* entries, request K+1 is never issued and the call never ends normally: if
\* none of the first K requests raises, exactly K requests are issued and
\* printed in order and the call then ends with the index error.  When params
\* (or data) is longer than urls, at most len(urls) requests are issued, the
\* surplus entries are never used, and exactly len(urls) requests are issued
\* and printed when none raises.  A request that raises ends the call there,
\* with the records of the requests before it printed.
C11_IteratesOverUrlsOnly ==
    IsCheckerCall
        => /\ i <= Len(urls) /\ i <= Len(params)
           /\ sent <= Len(urls) /\ sent <= Len(params)
           /\ Len(printed) = i
           /\ \A k \in 1..i : LineOfPair(k)
           /\ pc \in {"call", "inflight", "responded", "print"}
                 => (i < Len(urls) /\ i < Len(params))
           /\ (pc = "raised" /\ exc = "IndexError")
                 => /\ Len(params) < Len(urls)
                    /\ i = Len(params)
                    /\ sent = Len(params)
                    /\ completed = Len(params)
           /\ pc = "done"
                 => /\ Len(params) >= Len(urls)
                    /\ i = Len(urls)
                    /\ sent = Len(urls)
           /\ CallRaised => (sent = i + 1 /\ completed = sent)

C11_Witness ==
    /\ IsCheckerCall
    /\ Len(urls) = 2
    /\ Len(params) = 1
    /\ pc = "raised"
    /\ exc = "IndexError"
    /\ sent = 1
    /\ Len(printed) = 1
    /\ printed[1].url = urls[1]

====
